---- MODULE Spec2Model ----
(***************************************************************************)
(* Client-side controller of the conversational data-analysis UI.          *)
(*                                                                         *)
(* Two revisions of the controller are modelled side by side:              *)
(*   "script"  - src/static/script.js   (one canvas "botChart", one        *)
(*               module-level handle chartInstance, one-point-per-row      *)
(*               resolution);                                              *)
(*   "dash"    - src/unnamed/part_000   (four canvases chart1..chart4, a   *)
(*               handle map chartInstances, aggregateDataForChart).        *)
(* The variable `page` says which revision the browser has loaded.         *)
(*                                                                         *)
(* JavaScript values are tagged records; a JavaScript string is a TLA+     *)
(* string; a row is a record whose fields are the columns it carries.      *)
(* Numbers are integers: the cell alphabet of the model holds no '.', no   *)
(* exponent and no "Infinity", so parseFloat never yields a fraction.      *)
(* Labels never name a property of Object.prototype ("constructor", ...).  *)
(* The chart library (new Chart, destroy) is the rendering sink: creating  *)
(* a chart yields a live chart, destroy() ends it.                         *)
(***************************************************************************)
EXTENDS Integers, Sequences, FiniteSets, TLC

(***************************************************************************)
(* JavaScript values                                                       *)
(***************************************************************************)
Undef == [t |-> "undefined"]
Null == [t |-> "null"]
Num(n) == [t |-> "number", n |-> n]
Str(s) == [t |-> "string", s |-> s]
Arr(a) == [t |-> "array", a |-> a]

\* parseFloat's "not a number"
NaN == [t |-> "number", nan |-> TRUE]

IsNaN(v) == v.t = "number" /\ "nan" \in DOMAIN v

DigitChars == <<"0", "1", "2", "3", "4", "5", "6", "7", "8", "9">>

IsDigit(c) == \E i \in 1..10 : DigitChars[i] = c

DigitVal(c) == (CHOOSE i \in 1..10 : DigitChars[i] = c) - 1

\* Number::toString for an integer
RECURSIVE NatToString(_)
NatToString(n) ==
    IF n < 10 THEN DigitChars[n + 1]
    ELSE NatToString(n \div 10) \o DigitChars[(n % 10) + 1]

NumberToString(n) == IF n < 0 THEN "-" \o NatToString(-n) ELSE NatToString(n)

\* Array.prototype.join(","): undefined and null elements give ""
RECURSIVE JoinStrings(_)
JoinStrings(ss) ==
    IF Len(ss) = 0 THEN ""
    ELSE IF Len(ss) = 1 THEN ss[1]
    ELSE ss[1] \o "," \o JoinStrings(Tail(ss))

\* String(v), also the property key that obj[v] looks up
RECURSIVE StringOf(_)
StringOf(v) ==
    CASE v.t = "undefined" -> "undefined"
      [] v.t = "null" -> "null"
      [] v.t = "number" -> IF IsNaN(v) THEN "NaN" ELSE NumberToString(v.n)
      [] v.t = "string" -> v.s
      [] v.t = "array" ->
            JoinStrings([i \in 1..Len(v.a) |->
                IF v.a[i].t \in {"undefined", "null"} THEN "" ELSE StringOf(v.a[i])])

\* ToBoolean(v): what `!v` and `v || w` test
Truthy(v) ==
    CASE v.t = "undefined" -> FALSE
      [] v.t = "null" -> FALSE
      [] v.t = "number" -> ~IsNaN(v) /\ v.n # 0
      [] v.t = "string" -> v.s # ""
      [] v.t = "array" -> TRUE

\* the number of leading digits of s
RECURSIVE DigitPrefixLen(_)
DigitPrefixLen(s) ==
    IF Len(s) = 0 \/ ~IsDigit(SubSeq(s, 1, 1)) THEN 0
    ELSE 1 + DigitPrefixLen(Tail(s))

\* the value of a string of digits
RECURSIVE DigitsToNat(_)
DigitsToNat(s) ==
    IF Len(s) = 0 THEN 0
    ELSE DigitsToNat(SubSeq(s, 1, Len(s) - 1)) * 10 + DigitVal(SubSeq(s, Len(s), Len(s)))

RECURSIVE TrimLeft(_)
TrimLeft(s) == IF Len(s) > 0 /\ SubSeq(s, 1, 1) = " " THEN TrimLeft(Tail(s)) ELSE s

\* parseFloat(v): the longest numeric prefix of String(v) after leading
\* white space, NaN when there is none
parseFloat(v) ==
    LET s == TrimLeft(StringOf(v))
        neg == Len(s) > 0 /\ SubSeq(s, 1, 1) = "-"
        signed == Len(s) > 0 /\ SubSeq(s, 1, 1) \in {"-", "+"}
        body == IF signed THEN Tail(s) ELSE s
        k == DigitPrefixLen(body)
        mag == DigitsToNat(SubSeq(body, 1, k))
    IN  IF k = 0 THEN NaN ELSE Num(IF neg THEN -mag ELSE mag)

\* fault: `parseFloat(x) || 1`
ParseOrOne(v) == LET p == parseFloat(v) IN IF Truthy(p) THEN p.n ELSE 1

\* `parseFloat(x) || 0`
ParseOrZero(v) == LET p == parseFloat(v) IN IF Truthy(p) THEN p.n ELSE 0

\* String.prototype.toLowerCase over the letters the model uses
LowerChar(c) ==
    CASE c = "C" -> "c" [] c = "O" -> "o" [] c = "U" -> "u"
      [] c = "N" -> "n" [] c = "T" -> "t" [] c = "Y" -> "y"
      [] c = "L" -> "l" [] c = "A" -> "a" [] OTHER -> c

RECURSIVE toLowerCase(_)
toLowerCase(s) ==
    IF Len(s) = 0 THEN "" ELSE LowerChar(SubSeq(s, 1, 1)) \o toLowerCase(Tail(s))

\* v[0] for a value that is neither undefined nor null: the first element
\* of an array, the first character of a string
IndexZero(v) ==
    CASE v.t = "array" -> IF Len(v.a) = 0 THEN Undef ELSE v.a[1]
      [] v.t = "string" -> IF Len(v.s) = 0 THEN Undef ELSE Str(SubSeq(v.s, 1, 1))
      [] OTHER -> Undef

\* reading a property of undefined or null throws a TypeError
Nullish(v) == v.t \in {"undefined", "null"}

(***************************************************************************)
(* Plain objects used as maps: a sequence of <<key, value>> pairs kept in  *)
(* the order Object.keys reports: array-index keys ascending, then the     *)
(* other keys in insertion order.                                          *)
(***************************************************************************)
\* a < b for two strings of digits of the same length
RECURSIVE DigitsLess(_, _)
DigitsLess(a, b) ==
    IF Len(a) = 0 THEN FALSE
    ELSE LET x == DigitVal(SubSeq(a, 1, 1))
             y == DigitVal(SubSeq(b, 1, 1))
         IN  x < y \/ (x = y /\ DigitsLess(Tail(a), Tail(b)))

\* a < b for two canonical numeric strings
IndexLess(a, b) == Len(a) < Len(b) \/ (Len(a) = Len(b) /\ DigitsLess(a, b))

\* k is an array index: the canonical decimal form of an integer in
\* 0 .. 2^32 - 2
IsArrayIndex(k) ==
    /\ Len(k) > 0
    /\ DigitPrefixLen(k) = Len(k)
    /\ (Len(k) > 1 => SubSeq(k, 1, 1) # "0")
    /\ IndexLess(k, "4294967295")

HasKey(o, k) == \E i \in 1..Len(o) : o[i][1] = k

\* o[k], undefined when o has no such own property
ObjGet(o, k) ==
    IF HasKey(o, k) THEN Num(o[CHOOSE i \in 1..Len(o) : o[i][1] = k][2]) ELSE Undef

\* where a new key k goes
InsertAt(o, k) ==
    IF IsArrayIndex(k)
    THEN 1 + Cardinality({i \in 1..Len(o) :
                IsArrayIndex(o[i][1]) /\ IndexLess(o[i][1], k)})
    ELSE Len(o) + 1

\* o[k] = n
ObjSet(o, k, n) ==
    IF HasKey(o, k)
    THEN [i \in 1..Len(o) |-> IF o[i][1] = k THEN <<k, n>> ELSE o[i]]
    ELSE LET p == InsertAt(o, k)
         IN  SubSeq(o, 1, p - 1) \o <<(<<k, n>>)>> \o SubSeq(o, p, Len(o))

ObjectKeys(o) == [i \in 1..Len(o) |-> o[i][1]]

ObjectValues(o) == [i \in 1..Len(o) |-> o[i][2]]

\* row[key]: undefined when the row carries no such column
RowGet(row, key) ==
    LET k == StringOf(key) IN IF k \in DOMAIN row THEN row[k] ELSE Undef

\* the rows of a response, as the array the handlers receive
Rows(rs) == [t |-> "array", a |-> rs]

(***************************************************************************)
(* part_000: aggregateDataForChart                                         *)
(***************************************************************************)
\* the row count below which rows that all define the value column are
\* taken to be already aggregated
RawRowLimit == 50

\* the element of a one-element set.  A forEach over rows lo..hi is written
\* as the forEach over lo..mid followed by the one over mid+1..hi, the state
\* in between being a value (the element of a one-element set): the rows are
\* still visited once each, in order.
The(S) == CHOOSE x \in S : TRUE

Mid(lo, hi) == (lo + hi) \div 2

\* counts[label] = (counts[label] || 0) + 1
CountRow(row, labelKey, counts) ==
    LET label == RowGet(row, labelKey)
        prev == ObjGet(counts, StringOf(label))
    IN  ObjSet(counts, StringOf(label), (IF Truthy(prev) THEN prev.n ELSE 0) + 1)

\* data.forEach(row => ...) of the count branch, over rows lo..hi
RECURSIVE CountRows(_, _, _, _, _)
CountRows(rows, lo, hi, labelKey, counts) ==
    IF lo > hi THEN counts
    ELSE IF lo = hi THEN CountRow(rows[lo], labelKey, counts)
    ELSE The({CountRows(rows, Mid(lo, hi) + 1, hi, labelKey, first) :
                  first \in {CountRows(rows, lo, Mid(lo, hi), labelKey, counts)}})

\* fault: a row whose value is 0 is skipped (`if (!value) return`)
SumRowRaw_skipsZero(row, labelKey, dataKey, aggregated) ==
    LET label == StringOf(RowGet(row, labelKey))
        value == ParseOrZero(RowGet(row, dataKey))
        prev == ObjGet(aggregated, label)
    IN  IF value = 0 THEN aggregated
        ELSE ObjSet(aggregated, label, (IF Truthy(prev) THEN prev.n ELSE 0) + value)

\* aggregated[label] = (aggregated[label] || 0) + value
SumRowRaw(row, labelKey, dataKey, aggregated) ==
    LET label == StringOf(RowGet(row, labelKey))
        value == ParseOrZero(RowGet(row, dataKey))
        prev == ObjGet(aggregated, label)
    IN  ObjSet(aggregated, label, (IF Truthy(prev) THEN prev.n ELSE 0) + value)

\* data.forEach(row => ...) of the already-aggregated branch, over rows lo..hi
RECURSIVE SumRowsRaw(_, _, _, _, _, _)
SumRowsRaw(rows, lo, hi, labelKey, dataKey, aggregated) ==
    IF lo > hi THEN aggregated
    ELSE IF lo = hi THEN SumRowRaw(rows[lo], labelKey, dataKey, aggregated)
    ELSE The({SumRowsRaw(rows, Mid(lo, hi) + 1, hi, labelKey, dataKey, first) :
                  first \in {SumRowsRaw(rows, lo, Mid(lo, hi), labelKey, dataKey,
                                        aggregated)}})

\* fault: `grouped[label] = value` in place of `+=`
SumRowGrouped_overwrites(row, labelKey, dataKey, grouped) ==
    ObjSet(grouped, StringOf(RowGet(row, labelKey)), ParseOrZero(RowGet(row, dataKey)))

\* if (!grouped[label]) grouped[label] = 0; grouped[label] += value
SumRowGrouped(row, labelKey, dataKey, grouped) ==
    LET label == StringOf(RowGet(row, labelKey))
        value == ParseOrZero(RowGet(row, dataKey))
        zeroed == IF ~Truthy(ObjGet(grouped, label))
                  THEN ObjSet(grouped, label, 0) ELSE grouped
    IN  ObjSet(zeroed, label, ObjGet(zeroed, label).n + value)

\* data.forEach(row => ...) of the group-and-sum branch, over rows lo..hi
RECURSIVE SumRowsGrouped(_, _, _, _, _, _)
SumRowsGrouped(rows, lo, hi, labelKey, dataKey, grouped) ==
    IF lo > hi THEN grouped
    ELSE IF lo = hi THEN SumRowGrouped(rows[lo], labelKey, dataKey, grouped)
    ELSE The({SumRowsGrouped(rows, Mid(lo, hi) + 1, hi, labelKey, dataKey, first) :
                  first \in {SumRowsGrouped(rows, lo, Mid(lo, hi), labelKey, dataKey,
                                            grouped)}})

\* data.length < 50 && data.every(row => row[dataKey] !== undefined)
TakesRawBranch(rows, dataKey) ==
    /\ Len(rows) < RawRowLimit
    /\ \A i \in 1..Len(rows) : RowGet(rows[i], dataKey) # Undef

Thrown == [ok |-> FALSE]

Aggregated(o) == [ok |-> TRUE, labels |-> ObjectKeys(o), values |-> ObjectValues(o)]

\* fault: `dataKey === 'count'` without toLowerCase()
aggregateDataForChart_caseSensitive(data, labelKey, dataKey) ==
    IF dataKey.t # "string" THEN Thrown
    ELSE IF Nullish(data) THEN Thrown
    ELSE IF dataKey.s = "count"
         THEN Aggregated(CountRows(data.a, 1, Len(data.a), labelKey, <<>>))
    ELSE IF TakesRawBranch(data.a, dataKey)
         THEN Aggregated(SumRowsRaw(data.a, 1, Len(data.a), labelKey, dataKey, <<>>))
    ELSE Aggregated(SumRowsGrouped(data.a, 1, Len(data.a), labelKey, dataKey, <<>>))

\* aggregateDataForChart(data, labelKey, dataKey): the labels and values, or
\* a thrown TypeError (dataKey is no string, data is undefined)
aggregateDataForChart(data, labelKey, dataKey) ==
    IF dataKey.t # "string" THEN Thrown
    ELSE IF Nullish(data) THEN Thrown
    ELSE IF toLowerCase(dataKey.s) = "count"
         THEN Aggregated(CountRows(data.a, 1, Len(data.a), labelKey, <<>>))
    ELSE IF TakesRawBranch(data.a, dataKey)
         THEN Aggregated(SumRowsRaw(data.a, 1, Len(data.a), labelKey, dataKey, <<>>))
    ELSE Aggregated(SumRowsGrouped(data.a, 1, Len(data.a), labelKey, dataKey, <<>>))

(***************************************************************************)
(* Resolution of a blueprint (chart config) against the rows.  A config is *)
(* [type, labels, datasets, options]: config.type, config.data.labels,     *)
(* config.data.datasets (each [data, backgroundColor]), config.options.    *)
(* The result is [ok |-> TRUE, config |-> resolved] or Thrown.             *)
(***************************************************************************)
StrArr(ss) == Arr([i \in 1..Len(ss) |-> Str(ss[i])])

NumArr(ns) == Arr([i \in 1..Len(ns) |-> Num(ns[i])])

\* part_000: config.options after lines 237-239
P_options(options) ==
    [responsive |-> TRUE, maintainAspectRatio |-> FALSE]
        @@ (IF options = Undef THEN <<>> ELSE options)

\* part_000 renderChart, the body of its try block up to new Chart
P_resolve(config, data) ==
    IF Nullish(config.labels) THEN Thrown
    ELSE IF Len(config.datasets) = 0 \/ Nullish(config.datasets[1].data) THEN Thrown
    ELSE LET labelKey == IndexZero(config.labels)
             dataKey == IndexZero(config.datasets[1].data)
             aggregated == aggregateDataForChart(data, labelKey, dataKey)
         IN  IF ~aggregated.ok THEN Thrown
             ELSE IF config.type.t # "string" THEN Thrown
             ELSE [ok |-> TRUE,
                   config |-> [config EXCEPT
                       !.labels = StrArr(aggregated.labels),
                       !.datasets[1].data = NumArr(aggregated.values),
                       !.options = P_options(config.options)]]

DefaultColor == Str("rgba(0, 122, 255, 0.6)")

\* data.map(row => row[key])
MapColumn(data, key) == Arr([i \in 1..Len(data.a) |-> RowGet(data.a[i], key)])

\* static/script.js renderChart, the body of its try block up to new Chart
S_resolve(config, data) ==
    IF Len(config.datasets) = 0 THEN Thrown
    ELSE LET labelKey == config.labels
             dataKey == config.datasets[1].data
         IN  IF ~Truthy(labelKey) \/ ~Truthy(dataKey) THEN Thrown
             ELSE IF Nullish(data) THEN Thrown
             ELSE [ok |-> TRUE,
                   config |-> [config EXCEPT
                       !.labels = MapColumn(data, labelKey),
                       !.datasets[1].data = MapColumn(data, dataKey),
                       !.datasets[1].backgroundColor =
                           IF Truthy(@) THEN @ ELSE DefaultColor]]

(***************************************************************************)
(* The controller's state                                                  *)
(***************************************************************************)
VARIABLES
    page,            \* the revision loaded: "script" or "dash"
    nextPrompt,      \* the number the next prompt gets
    pending,         \* the prompts whose fetch('/ask') has not settled
    chatBox,         \* the chat transcript, a sequence of message elements
    panel,           \* insightBox (script) / resultsSection (dash)
    downloadBtn,     \* whether the download button is displayed
    chartInstance,   \* script: the module-level handle, 0 for null
    chartInstances,  \* dash: chart number -> handle, 0 for no entry
    slots,           \* dash: what each of the four chart cards shows
    charts,          \* every chart ever created, by handle
    peakLive,        \* the most charts ever live at once on one canvas
    received,        \* the prompt and response last handed to updateUI
    rendered,        \* per blueprint of that response, how renderChart ended
    escaped,         \* whether renderChart let an exception out to updateUI
    exported         \* what the last download click exported: each chart
                     \* handle, and whether that chart was live

vars == <<page, nextPrompt, pending, chatBox, panel, downloadBtn, chartInstance,
          chartInstances, slots, charts, peakLive, received, rendered, escaped,
          exported>>

\* the chart cards of part_000 (chart1 .. chart4)
MaxChartSlots == 4

Max(a, b) == IF a > b THEN a ELSE b

Min(a, b) == IF a < b THEN a ELSE b

\* the canvas identity of chart card n
SlotCanvas(n) == "chart" \o NatToString(n)

Canvases == {"botChart"} \cup {SlotCanvas(n) : n \in 1..MaxChartSlots}

\* the charts live on a canvas identity
LiveOn(cs, canvas) == {id \in 1..Len(cs) : cs[id].canvas = canvas /\ cs[id].live}

\* chart.destroy()
destroy(cs, id) == [cs EXCEPT ![id].live = FALSE, ![id].destroyCalls = @ + 1]

\* new Chart(canvas.getContext('2d'), config): the new chart's handle is Len
newChart(cs, canvas) == Append(cs, [canvas |-> canvas, live |-> TRUE, destroyCalls |-> 0])

NoPanel == [from |-> 0, sql |-> FALSE, table |-> FALSE, canvas |-> FALSE, note |-> ""]

NoSlots == [n \in 1..MaxChartSlots |-> "waiting"]

NoInstances == [n \in 1..MaxChartSlots |-> 0]

Init ==
    /\ page \in {"script", "dash"}
    /\ nextPrompt = 1
    /\ pending = {}
    /\ chatBox = <<>>
    /\ panel = NoPanel
    /\ downloadBtn = FALSE
    /\ chartInstance = 0
    /\ chartInstances = NoInstances
    /\ slots = NoSlots
    /\ charts = <<>>
    /\ peakLive = 0
    /\ received = [prompt |-> 0]
    /\ rendered = <<>>
    /\ escaped = FALSE
    /\ exported = {}

(***************************************************************************)
(* The chat transcript                                                     *)
(***************************************************************************)
Message(role, prompt, loading, from, text) ==
    [role |-> role, prompt |-> prompt, loading |-> loading, from |-> from, text |-> text]

\* chatBox.querySelector('.loading'): the first loading element, 0 for null
FirstLoading(chat) ==
    IF \E i \in 1..Len(chat) : chat[i].loading
    THEN CHOOSE i \in 1..Len(chat) :
            chat[i].loading /\ \A j \in 1..(i - 1) : ~chat[j].loading
    ELSE 0

HasRows(resp) == ~Nullish(resp.results) /\ Len(resp.results.a) > 0

\* static/script.js updateChat
S_updateChat(chat, from, resp) ==
    LET loadingMessage == FirstLoading(chat)
        chatHtml == resp.summary \o (IF HasRows(resp) THEN "<table>" ELSE "")
        shown == IF chatHtml = "" THEN "processed" ELSE chatHtml
    IN  IF loadingMessage # 0
        THEN [chat EXCEPT ![loadingMessage].loading = FALSE,
                          ![loadingMessage].from = from,
                          ![loadingMessage].text = shown]
        ELSE chat

\* part_000 updateChat
P_updateChat(chat, from, resp) ==
    LET loadingMessage == FirstLoading(chat)
        chatHtml == IF resp.summary # "" THEN resp.summary ELSE "Analysis complete."
    IN  IF loadingMessage # 0
        THEN [chat EXCEPT ![loadingMessage].loading = FALSE,
                          ![loadingMessage].from = from,
                          ![loadingMessage].text = chatHtml]
        ELSE Append(chat, Message("bot", 0, FALSE, from, chatHtml))

\* the errorData both revisions build in their catch block
ErrorData ==
    [summary |-> "Sorry, a technical error occurred.", sql_query |-> FALSE, results |-> Undef,
     chart_config |-> Undef, charts |-> <<>>]

(***************************************************************************)
(* static/script.js: updateInsights and renderChart                        *)
(***************************************************************************)
\* fault: the previous chart is not destroyed
S_keepPrevious(handle, cs) == cs

\* renderChart lines 89-91: if (chartInstance) chartInstance.destroy()
S_disposePrevious(handle, cs) == IF handle # 0 THEN destroy(cs, handle) ELSE cs

\* fault: renderChart without its try/catch, the exception leaves it
S_noCatch(st) == [st EXCEPT !.escaped = TRUE]

\* renderChart lines 118-121: catch (error), the message is added to insightBox
S_catch(st) == [st EXCEPT !.note = "plot error"]

\* renderChart(config, data): the handle, the charts, the peak, how the try
\* block ended, what the catch block added and whether an exception left
S_renderChart(config, data, handle, cs, peak) ==
    LET disposed == S_disposePrevious(handle, cs)
        r == S_resolve(config, data)
        created == newChart(disposed, "botChart")
    IN  IF r.ok
        THEN [chartInstance |-> Len(created), charts |-> created,
              peakLive |-> Max(peak, Cardinality(LiveOn(created, "botChart"))),
              outcome |-> r, note |-> "", escaped |-> FALSE]
        ELSE S_catch([chartInstance |-> handle, charts |-> disposed,
                      peakLive |-> peak, outcome |-> r, note |-> "",
                      escaped |-> FALSE])

S_updateInsights(p, resp) ==
    IF resp.chart_config # Undef
    THEN \E r \in {S_renderChart(resp.chart_config, resp.results,
                                  chartInstance, charts, peakLive)} :
             /\ panel' = [from |-> p, sql |-> resp.sql_query, table |-> FALSE,
                          canvas |-> TRUE, note |-> r.note]
             /\ downloadBtn' = ~r.escaped
             /\ escaped' = r.escaped
             /\ chartInstance' = r.chartInstance
             /\ charts' = r.charts
             /\ peakLive' = r.peakLive
             /\ rendered' = <<r.outcome>>
    ELSE /\ panel' = [from |-> p, sql |-> resp.sql_query, table |-> FALSE,
                      canvas |-> FALSE,
                      note |-> IF resp.sql_query THEN "" ELSE "no analysis"]
         /\ downloadBtn' = FALSE
         /\ rendered' = <<>>
         /\ escaped' = FALSE
         /\ UNCHANGED <<chartInstance, charts, peakLive>>

(***************************************************************************)
(* part_000: updateResults and renderChart                                 *)
(***************************************************************************)
\* updateResults line 129: destroy every chart chartInstances holds
RECURSIVE P_disposeAll(_, _, _)
P_disposeAll(instances, cs, n) ==
    IF n > MaxChartSlots THEN cs
    ELSE P_disposeAll(instances,
             IF instances[n] # 0 THEN destroy(cs, instances[n]) ELSE cs, n + 1)

\* fault: renderChart without its try/catch, the exception leaves it
P_noCatch(chartNum, st) == [st EXCEPT !.escaped = TRUE]

\* renderChart lines 253-258: catch (error), the placeholder shows the failure
P_catch(chartNum, st) == [st EXCEPT !.slots[chartNum] = "failed"]

\* renderChart(chartNum, chartData, data) applied to the state st
P_renderChart(chartNum, config, data, st) ==
    LET r == P_resolve(config, data)
        created == newChart(st.charts, SlotCanvas(chartNum))
    IN  IF r.ok
        THEN [chartInstances |-> [st.chartInstances EXCEPT ![chartNum] = Len(created)],
              charts |-> created,
              peakLive |-> Max(st.peakLive,
                               Cardinality(LiveOn(created, SlotCanvas(chartNum)))),
              slots |-> [st.slots EXCEPT ![chartNum] = "chart"],
              rendered |-> Append(st.rendered, r),
              escaped |-> FALSE]
        ELSE P_catch(chartNum, [st EXCEPT !.rendered = Append(st.rendered, r)])

\* data.analysis.charts.slice(0, 4).forEach((chartData, index) => renderChart(index + 1, ...))
RECURSIVE P_renderEach(_, _, _, _)
P_renderEach(configs, data, index, st) ==
    IF index > Min(Len(configs), MaxChartSlots) \/ st.escaped THEN st
    ELSE P_renderEach(configs, data, index + 1,
                      P_renderChart(index, configs[index], data, st))

P_updateResults(p, resp) ==
    LET cleared == [chartInstances |-> NoInstances,
                    charts |-> P_disposeAll(chartInstances, charts, 1),
                    peakLive |-> peakLive,
                    slots |-> NoSlots,
                    rendered |-> <<>>,
                    escaped |-> FALSE]
    IN  \E st \in {P_renderEach(resp.charts, resp.results, 1, cleared)} :
        /\ panel' = [from |-> p, sql |-> resp.sql_query, table |-> HasRows(resp),
                     canvas |-> FALSE, note |-> ""]
        /\ downloadBtn' = (Len(resp.charts) > 0 /\ ~st.escaped)
        /\ escaped' = st.escaped
        /\ chartInstances' = st.chartInstances
        /\ charts' = st.charts
        /\ peakLive' = st.peakLive
        /\ slots' = st.slots
        /\ rendered' = st.rendered

(***************************************************************************)
(* The operations                                                          *)
(***************************************************************************)
\* sendMessage up to its await: the prompt and the loading placeholder are
\* appended and fetch('/ask') is issued
sendMessage(limit) ==
    /\ nextPrompt <= limit
    /\ chatBox' = chatBox \o <<Message("user", nextPrompt, FALSE, nextPrompt, "prompt"),
                               Message("bot", nextPrompt, TRUE, 0, "loading")>>
    /\ pending' = pending \cup {nextPrompt}
    /\ nextPrompt' = nextPrompt + 1
    /\ UNCHANGED <<page, panel, downloadBtn, chartInstance, chartInstances, slots,
                   charts, peakLive, received, rendered, escaped, exported>>

\* fault: a response of a prompt issued before the one the panel shows is
\* kept out of the panel (the newest issued prompt wins, not the last arrival)
S_updateUI_newestIssuedWins(p, resp) ==
    /\ page = "script"
    /\ p \in pending
    /\ pending' = pending \ {p}
    /\ IF p < panel.from
       THEN UNCHANGED <<panel, downloadBtn, chartInstance, charts, peakLive,
                        rendered, escaped>>
       ELSE S_updateInsights(p, resp)
    /\ chatBox' = S_updateChat(chatBox, p, resp)
    /\ received' = [prompt |-> p, resp |-> resp]
    /\ UNCHANGED <<page, nextPrompt, chartInstances, slots, exported>>

\* the fetch of prompt p resolves with an OK response carrying resp:
\* updateUI(data) of static/script.js, called inside the try block of
\* sendMessage (an exception leaving it runs updateChat(errorData))
S_updateUI(p, resp) ==
    /\ page = "script"
    /\ p \in pending
    /\ pending' = pending \ {p}
    /\ S_updateInsights(p, resp)
    /\ chatBox' = IF escaped'
                  THEN S_updateChat(S_updateChat(chatBox, p, resp), p, ErrorData)
                  ELSE S_updateChat(chatBox, p, resp)
    /\ received' = [prompt |-> p, resp |-> resp]
    /\ UNCHANGED <<page, nextPrompt, chartInstances, slots, exported>>

\* the same, updateUI(data) of part_000
P_updateUI(p, resp) ==
    /\ page = "dash"
    /\ p \in pending
    /\ pending' = pending \ {p}
    /\ P_updateResults(p, resp)
    /\ chatBox' = IF escaped'
                  THEN P_updateChat(P_updateChat(chatBox, p, resp), p, ErrorData)
                  ELSE P_updateChat(chatBox, p, resp)
    /\ received' = [prompt |-> p, resp |-> resp]
    /\ UNCHANGED <<page, nextPrompt, chartInstance, exported>>

\* the fetch of prompt p rejects or answers with a non-OK status: the catch
\* block of sendMessage
requestFailed(p) ==
    /\ p \in pending
    /\ pending' = pending \ {p}
    /\ chatBox' = IF page = "script" THEN S_updateChat(chatBox, p, ErrorData)
                  ELSE P_updateChat(chatBox, p, ErrorData)
    /\ UNCHANGED <<page, nextPrompt, panel, downloadBtn, chartInstance, chartInstances,
                   slots, charts, peakLive, received, rendered, escaped, exported>>

\* a click on the download button: downloadChart (script), the click
\* listener of part_000 lines 288-298
downloadClick ==
    /\ downloadBtn
    /\ exported' = {[chart |-> id, live |-> charts[id].live] :
                        id \in IF page = "script"
                               THEN (IF chartInstance # 0 THEN {chartInstance} ELSE {})
                               ELSE {chartInstances[n] :
                                         n \in {m \in 1..MaxChartSlots :
                                                    chartInstances[m] # 0}}}
    /\ UNCHANGED <<page, nextPrompt, pending, chatBox, panel, downloadBtn, chartInstance,
                   chartInstances, slots, charts, peakLive, received, rendered, escaped>>

(***************************************************************************)
(* Responses of the backend                                                *)
(***************************************************************************)
Dataset(ref) == [data |-> ref, backgroundColor |-> Undef]

Blueprint(labelRef, datasets) ==
    [type |-> Str("bar"), labels |-> labelRef, datasets |-> datasets, options |-> Undef]

Response(summary, sql, results, config, configs) ==
    [summary |-> summary, sql_query |-> sql, results |-> results,
     chart_config |-> config, charts |-> configs]

Row(city, sales) == [city |-> city, sales |-> sales]

CityRows == <<Row(Str("NY"), Num(10)), Row(Str("NY"), Num(5)), Row(Str("LA"), Num(7))>>

\* bounds of the model
MaxPrompts == 3
MaxRows == 3
MaxShapeRows == 2

\* sequences of at most n elements of S
SeqsUpTo(S, n) == UNION {[1..k -> S] : k \in 0..n}

\* --- the controller specification: few responses, several prompts ---
GoodBlueprint == Blueprint(Arr(<<Str("city")>>), <<Dataset(Arr(<<Str("sales")>>))>>)

BadBlueprint == Blueprint(Undef, <<Dataset(Arr(<<Str("sales")>>))>>)

FiveBlueprints == [i \in 1..(MaxChartSlots + 1) |-> GoodBlueprint]

\* what the backend of static/script.js answers: no chart, a chart, a
\* chart whose blueprint lacks its label reference
S_Responses ==
    {Response("answer", sql, results, Undef, <<>>) :
        sql \in BOOLEAN, results \in {Undef, Rows(CityRows)}}
    \cup {Response("answer", TRUE, results, GoodBlueprint, <<>>) :
        results \in {Undef, Rows(<<>>), Rows(CityRows)}}
    \cup {Response("answer", TRUE, Rows(CityRows), BadBlueprint, <<>>)}

\* what the backend of part_000 answers: no chart, one chart, a failing and
\* a good chart, more charts than there are cards
P_Responses ==
    {Response("answer", sql, results, Undef, <<>>) :
        sql \in BOOLEAN, results \in {Undef, Rows(CityRows)}}
    \cup {Response("answer", TRUE, results, Undef, <<GoodBlueprint>>) :
        results \in {Undef, Rows(<<>>), Rows(CityRows)}}
    \cup {Response("answer", TRUE, Rows(CityRows), Undef, configs) :
        configs \in {<<BadBlueprint, GoodBlueprint>>, FiveBlueprints}}

Next ==
    \/ sendMessage(MaxPrompts)
    \/ \E p \in pending, resp \in S_Responses : S_updateUI(p, resp)
    \/ \E p \in pending, resp \in P_Responses : P_updateUI(p, resp)
    \/ \E p \in pending : requestFailed(p)
    \/ downloadClick

Spec == Init /\ [][Next]_vars

\* --- blueprint shapes: many blueprints, few row sets, one prompt ---
LabelRefs ==
    {Str("city"), Arr(<<Str("city")>>), Str("region"), Arr(<<Str("region")>>),
     Undef, Arr(<<>>), Str("")}

ValueRefs ==
    {Str("sales"), Arr(<<Str("sales")>>), Str("count"), Arr(<<Str("count")>>),
     Undef, Arr(<<>>), Str("")}

ShapeRowKinds == {Row(Str("NY"), Num(10)), Row(Str("LA"), Num(7)), Row(Num(2), Str("5"))}

\* option blocks a blueprint may carry (config.options)
BlueprintOptions ==
    {[responsive |-> FALSE],
     [maintainAspectRatio |-> TRUE, indexAxis |-> "y"],
     [indexAxis |-> "y"],
     [responsive |-> TRUE, maintainAspectRatio |-> FALSE]}

ShapeBlueprints ==
    {Blueprint(l, <<Dataset(v)>>) : l \in LabelRefs, v \in ValueRefs}
        \cup {Blueprint(l, <<Dataset(v), Dataset(v)>>) :
                 l \in {Str("city"), Arr(<<Str("city")>>)},
                 v \in {Str("sales"), Arr(<<Str("sales")>>)}}
        \cup {[GoodBlueprint EXCEPT !.options = o] : o \in BlueprintOptions}

ShapeResults == {Undef} \cup {Rows(rs) : rs \in SeqsUpTo(ShapeRowKinds, MaxShapeRows)}

NextShape ==
    \/ sendMessage(1)
    \/ \E p \in pending, b \in ShapeBlueprints, results \in ShapeResults :
            S_updateUI(p, Response("answer", TRUE, results, b, <<>>))
    \/ \E p \in pending, b \in ShapeBlueprints, results \in ShapeResults :
            P_updateUI(p, Response("answer", TRUE, results, Undef, <<b>>))

SpecShape == Init /\ [][NextShape]_vars

\* --- aggregation: part_000 only, few blueprints, many row sets ---
RowKinds ==
    {Row(Str("NY"), Num(10)), Row(Str("NY"), Num(5)), Row(Str("LA"), Num(7)),
     Row(Str("NY"), Str("x")), Row(Num(10), Str("5")),
     [city |-> Str("LA"), count |-> Num(9)], [sales |-> Null]}

\* rows that take a row set to the row limit of the raw branch and beyond
Filler == [i \in 1..RawRowLimit |-> Row(Str("LA"), Num(1))]

AggregateResults ==
    {Rows(rs \o pad) : rs \in SeqsUpTo(RowKinds, MaxRows), pad \in {<<>>, Filler}}

AggregateBlueprints ==
    {Blueprint(Arr(<<Str("city")>>), <<Dataset(Arr(<<Str(v)>>))>>) :
        v \in {"sales", "count", "Count"}}

InitDash == Init /\ page = "dash"

NextAggregate ==
    \/ sendMessage(1)
    \/ \E p \in pending, b \in AggregateBlueprints, results \in AggregateResults :
            P_updateUI(p, Response("answer", TRUE, results, Undef, <<b>>))

SpecAggregate == InitDash /\ [][NextAggregate]_vars

(***************************************************************************)
(* Properties                                                              *)
(***************************************************************************)
\* a response has been handed to updateUI
Handled == received.prompt # 0

Range(f) == {f[i] : i \in DOMAIN f}

\* ---------------------------------------------------------------- C1
\* C1: at every moment at most one chart is live on each canvas identity:
\* in every state, and at every instant inside a handler (peakLive), so a
\* chart previously bound to a canvas is destroyed before the next one is
\* created on it.
C1_OneLiveChartPerCanvas ==
    /\ peakLive <= 1
    /\ \A canvas \in Canvases : Cardinality(LiveOn(charts, canvas)) <= 1

\* a second chart has been rendered on a canvas that already had one
C1_SecondChartRendered ==
    \E a, b \in 1..Len(charts) :
        /\ a < b
        /\ charts[a].canvas = charts[b].canvas
        /\ ~charts[a].live
        /\ charts[b].live

\* ------------------------------------------- aggregation (SpecAggregate)
AggRows == received.resp.results.a

AggKey == received.resp.charts[1].datasets[1].data.a[1].s

AggOk == Len(rendered) = 1 /\ rendered[1].ok

OutLabels == [i \in 1..Len(rendered[1].config.labels.a) |-> rendered[1].config.labels.a[i].s]

OutValues ==
    [i \in 1..Len(rendered[1].config.datasets[1].data.a) |->
        rendered[1].config.datasets[1].data.a[i].n]

CountMode == AggKey \in {"count", "Count"}

\* the category of a row: its label cell in its natural string form
LabelOf(row) == StringOf(IF "city" \in DOMAIN row THEN row.city ELSE Undef)

RowsWith(rows, label) == {i \in 1..Len(rows) : LabelOf(rows[i]) = label}

FirstIndex(rows, label) ==
    CHOOSE i \in RowsWith(rows, label) : \A j \in RowsWith(rows, label) : i <= j

\* the labels are the categories of the rows, each once
LabelsCoverRows(rows, labels) ==
    /\ Range(labels) = {LabelOf(rows[i]) : i \in 1..Len(rows)}
    /\ \A a, b \in 1..Len(labels) : labels[a] = labels[b] => a = b

SalesOf(row) == IF "sales" \in DOMAIN row THEN row.sales ELSE Undef

\* the sum over rows lo..hi of the coerced sales of the rows of one category
RECURSIVE CoercedSum(_, _, _, _)
CoercedSum(rows, lo, hi, label) ==
    IF lo > hi THEN 0
    ELSE IF lo = hi
    THEN (IF LabelOf(rows[lo]) = label THEN ParseOrZero(SalesOf(rows[lo])) ELSE 0)
    ELSE CoercedSum(rows, lo, Mid(lo, hi), label)
            + CoercedSum(rows, Mid(lo, hi) + 1, hi, label)

RECURSIVE SeqSum(_, _)
SeqSum(ns, i) == IF i = 0 THEN 0 ELSE SeqSum(ns, i - 1) + ns[i]

\* C3: the labels come in first-seen-category order, whatever the labels
\* are, and values[i] describes labels[i].
C3_FirstSeenOrder ==
    (Handled /\ AggOk) =>
        /\ LabelsCoverRows(AggRows, OutLabels)
        /\ \A a, b \in 1..Len(OutLabels) :
              a < b => FirstIndex(AggRows, OutLabels[a]) < FirstIndex(AggRows, OutLabels[b])
        /\ Len(OutValues) = Len(OutLabels)
        /\ \A i \in 1..Len(OutLabels) :
              OutValues[i] = IF CountMode
                             THEN Cardinality(RowsWith(AggRows, OutLabels[i]))
                             ELSE CoercedSum(AggRows, 1, Len(AggRows), OutLabels[i])

\* C4: for a value column other than "count", each distinct label gets the
\* sum of the coerced values of the rows carrying it, below and above the
\* row limit of the raw branch alike.
C4_SumPerLabel ==
    (Handled /\ ~CountMode) =>
        /\ AggOk
        /\ LabelsCoverRows(AggRows, OutLabels)
        /\ Len(OutValues) = Len(OutLabels)
        /\ \A i \in 1..Len(OutLabels) :
              OutValues[i] = CoercedSum(AggRows, 1, Len(AggRows), OutLabels[i])

\* (NY,10),(NY,5),(LA,7) followed by rows that pass the row limit
C4_SumAboveLimit ==
    /\ Handled
    /\ AggKey = "sales"
    /\ AggRows = CityRows \o Filler
    /\ Len(AggRows) >= RawRowLimit
    /\ OutLabels = <<"NY", "LA">>
    /\ OutValues = <<15, 7 + RawRowLimit>>

\* C5: when the value key is "count" in any letter case, each value is the
\* number of rows of its label, whatever a column called count holds, and
\* the values add up to rows.length.
C5_CountPerLabel ==
    (Handled /\ CountMode) =>
        /\ AggOk
        /\ LabelsCoverRows(AggRows, OutLabels)
        /\ Len(OutValues) = Len(OutLabels)
        /\ \A i \in 1..Len(OutLabels) :
              OutValues[i] = Cardinality(RowsWith(AggRows, OutLabels[i]))
        /\ SeqSum(OutValues, Len(OutValues)) = Len(AggRows)

\* (NY,10),(NY,5) and an LA row that carries a count column, counted under
\* the key "Count"
C5_CountsTwoOne ==
    /\ Handled
    /\ AggKey = "Count"
    /\ AggRows = <<CityRows[1], CityRows[2], [city |-> Str("LA"), count |-> Num(9)]>>
    /\ OutLabels = <<"NY", "LA">>
    /\ OutValues = <<2, 1>>

UniqueLabels(rows) ==
    \A i, j \in 1..Len(rows) : LabelOf(rows[i]) = LabelOf(rows[j]) => i = j

\* C7: on rows whose labels are all different the already-aggregated branch
\* and the group-and-sum branch give the same labels and values, which are
\* also what aggregateDataForChart returned, each value being the coerced
\* value of the one row of its label.
C7_BranchesAgreeOnUniqueLabels ==
    (Handled /\ ~CountMode /\ UniqueLabels(AggRows)) =>
        \E raw \in {Aggregated(SumRowsRaw(AggRows, 1, Len(AggRows), Str("city"), Str(AggKey), <<>>))} :
        \E grouped \in {Aggregated(SumRowsGrouped(AggRows, 1, Len(AggRows), Str("city"), Str(AggKey), <<>>))} :
            /\ raw = grouped
            /\ AggOk
            /\ OutLabels = raw.labels
            /\ OutValues = raw.values
            /\ \A i \in 1..Len(raw.labels) :
                  raw.values[i] =
                      ParseOrZero(SalesOf(AggRows[FirstIndex(AggRows, raw.labels[i])]))

\* three rows of different labels, all defining the value column
C7_UniqueRawRows ==
    /\ Handled
    /\ AggKey = "sales"
    /\ AggRows = <<Row(Str("NY"), Num(10)), Row(Str("LA"), Num(7)), Row(Num(10), Str("5"))>>
    /\ TakesRawBranch(AggRows, Str(AggKey))
    /\ OutValues = <<5, 10, 7>>

\* a cell that is missing, null or a string without a number in front
Malformed(cell) ==
    \/ cell \in {Undef, Null}
    \/ cell.t = "string" /\ DigitPrefixLen(cell.s) = 0

\* the number a well-formed cell holds
CellNumber(cell) == IF cell.t = "number" THEN cell.n ELSE DigitsToNat(cell.s)

\* the sum over rows lo..hi of the well-formed sales of one category
RECURSIVE WellFormedSum(_, _, _, _)
WellFormedSum(rows, lo, hi, label) ==
    IF lo > hi THEN 0
    ELSE IF lo = hi
    THEN (IF LabelOf(rows[lo]) = label /\ ~Malformed(SalesOf(rows[lo]))
          THEN CellNumber(SalesOf(rows[lo])) ELSE 0)
    ELSE WellFormedSum(rows, lo, Mid(lo, hi), label)
            + WellFormedSum(rows, Mid(lo, hi) + 1, hi, label)

\* C8: in sum mode a missing, null or non-numeric cell adds 0 to the sum of
\* its label and the chart is resolved all the same.
C8_MalformedCellsAddZero ==
    (Handled /\ ~CountMode) =>
        /\ AggOk
        /\ Len(OutValues) = Len(OutLabels)
        /\ \A i \in 1..Len(OutLabels) :
              OutValues[i] = WellFormedSum(AggRows, 1, Len(AggRows), OutLabels[i])

\* (NY,"x"),(NY,5) and a row without label whose value is null
C8_MalformedAmongGood ==
    /\ Handled
    /\ AggKey = "sales"
    /\ AggRows = <<Row(Str("NY"), Str("x")), Row(Str("NY"), Num(5)), [sales |-> Null]>>
    /\ OutLabels = <<"NY", "undefined">>
    /\ OutValues = <<5, 0>>

\* ------------------------------------------- blueprint shapes (SpecShape)
\* the blueprint and rows of the response last handled
ShapeBlueprint ==
    IF page = "script" THEN received.resp.chart_config ELSE received.resp.charts[1]

ShapeData == received.resp.results

\* what the loaded revision resolves a blueprint to
Resolve(b, data) == IF page = "script" THEN S_resolve(b, data) ELSE P_resolve(b, data)

\* the failure message stands where the chart would be
FailureShown == IF page = "script" THEN panel.note = "plot error" ELSE slots[1] = "failed"

\* a reference to "the column named X": the bare string or the one-element
\* sequence
NamesColumn(ref) ==
    \/ ref.t = "string" /\ ref.s # ""
    \/ ref.t = "array" /\ Len(ref.a) = 1 /\ ref.a[1].t = "string" /\ ref.a[1].s # ""

RefName(ref) == IF ref.t = "string" THEN ref.s ELSE ref.a[1].s

\* a reference that is absent, an empty sequence or an empty string
MissingRef(ref) == ref \in {Undef, Arr(<<>>), Str("")}

\* every reference of the blueprint is a one-element sequence, the shape
\* part_000 reads
SequenceShaped(b) ==
    /\ NamesColumn(b.labels) /\ b.labels.t = "array"
    /\ \A d \in 1..Len(b.datasets) :
          NamesColumn(b.datasets[d].data) /\ b.datasets[d].data.t = "array"

\* C2: once part_000's renderChart has resolved a blueprint, every series of
\* it holds as many values as there are labels, also when the blueprint
\* carries more than one series.
C2_LabelsMatchEverySeries ==
    (/\ Handled /\ page = "dash"
     /\ SequenceShaped(ShapeBlueprint)
     /\ ~Nullish(ShapeData) /\ Len(ShapeData.a) > 0
     /\ rendered[1].ok) =>
        \A d \in 1..Len(rendered[1].config.datasets) :
            /\ rendered[1].config.datasets[d].data.t = "array"
            /\ Len(rendered[1].config.datasets[d].data.a)
                   = Len(rendered[1].config.labels.a)

\* C6: a reference given as the bare string "X" resolves exactly as the
\* reference given as the sequence ["X"], for the label and for the value.
C6_DualShape ==
    Handled =>
        /\ ShapeBlueprint.labels.t = "string" /\ ShapeBlueprint.labels.s # ""
              => rendered[1] = Resolve([ShapeBlueprint EXCEPT !.labels = Arr(<<@>>)],
                                       ShapeData)
        /\ ShapeBlueprint.datasets[1].data.t = "string"
              /\ ShapeBlueprint.datasets[1].data.s # ""
              => rendered[1] = Resolve([ShapeBlueprint EXCEPT
                                           !.datasets[1].data = Arr(<<@>>)],
                                       ShapeData)

\* C9: rows are present and none of them carries the label column the
\* blueprint names: the resolution fails, the failure message is shown and
\* no chart is created.
C9_MissingLabelColumnFails ==
    (/\ Handled
     /\ ~Nullish(ShapeData) /\ Len(ShapeData.a) > 0
     /\ NamesColumn(ShapeBlueprint.labels)
     /\ \A i \in 1..Len(ShapeData.a) :
            RefName(ShapeBlueprint.labels) \notin DOMAIN ShapeData.a[i])
        => (~rendered[1].ok /\ FailureShown /\ charts = <<>>)

\* C10: the blueprint lacks its label reference or its value reference
\* (absent, empty sequence, empty string): the resolution fails, the failure
\* message is shown and no chart is created.
C10_MalformedBlueprintFails ==
    (Handled /\ (MissingRef(ShapeBlueprint.labels)
                    \/ MissingRef(ShapeBlueprint.datasets[1].data)))
        => (~rendered[1].ok /\ FailureShown /\ charts = <<>>)

\* ---------------------------------------------------------------- C11
\* the response last handled carries a chart blueprint
CarriesBlueprint ==
    IF page = "script" THEN received.resp.chart_config # Undef
    ELSE Len(received.resp.charts) > 0

\* the response last handled carries a row set with no rows
EmptyRowSet == ~Nullish(received.resp.results) /\ Len(received.resp.results.a) = 0

\* a message stands where the chart would be
MessageInsteadOfChart ==
    IF page = "script" THEN panel.note # ""
    ELSE \A n \in 1..MaxChartSlots : slots[n] # "chart"

\* C11: a response that carries a chart blueprint together with an empty row
\* set produces no chart (no chart instance is created for it) and a message
\* is shown in the chart's place.
C11_EmptyRowsNoChart ==
    (Handled /\ CarriesBlueprint /\ EmptyRowSet) =>
        /\ \A i \in 1..Len(rendered) : ~rendered[i].ok
        /\ \A canvas \in Canvases : LiveOn(charts, canvas) = {}
        /\ MessageInsteadOfChart

\* ---------------------------------------------------------------- C12
\* the failure message of the i-th blueprint of the response is on the page
FailureShownFor(i) ==
    IF page = "script" THEN panel.note = "plot error" ELSE slots[i] = "failed"

\* C12: whatever the blueprint and the rows (an absent row set included),
\* renderChart returns to its caller: no exception leaves it, and a
\* resolution that failed has its failure message on the page.
C12_NoExceptionEscapes ==
    Handled =>
        /\ ~escaped
        /\ \A i \in 1..Len(rendered) : ~rendered[i].ok => FailureShownFor(i)

\* a blueprint met an absent row set and its failure message is shown
C12_AbsentRowsFailureShown ==
    /\ Handled
    /\ received.resp.results = Undef
    /\ Len(rendered) = 1 /\ ~rendered[1].ok
    /\ FailureShownFor(1)

\* ---------------------------------------------------------------- C13
\* the handle the controller holds for the i-th blueprint's canvas
HandleFor(i) == IF page = "script" THEN chartInstance ELSE chartInstances[i]

\* C13: after a response whose chart resolution failed the controller holds
\* no handle for that canvas; hence a download click never exports a chart
\* that was destroyed, and no chart is destroyed a second time.
C13_FailureClearsChartState ==
    /\ Handled => \A i \in 1..Len(rendered) : ~rendered[i].ok => HandleFor(i) = 0
    /\ \A e \in exported : e.live
    /\ \A id \in 1..Len(charts) : charts[id].destroyCalls <= 1

\* ---------------------------------------------------------------- C14
\* the blueprints of the response last handled whose chart was created
OkCount == Cardinality({i \in 1..Len(rendered) : rendered[i].ok})

\* the handles of the charts created for the response last handled
LastCreated == {id \in 1..Len(charts) : id > Len(charts) - OkCount}

\* the live charts on a canvas that is part of the page
DisplayedCharts ==
    IF page = "script"
    THEN (IF panel.canvas THEN LiveOn(charts, "botChart") ELSE {})
    ELSE UNION {LiveOn(charts, SlotCanvas(n)) : n \in 1..MaxChartSlots}

\* what the panel shows when the response resp of prompt p is the one on it
PanelOf(p, resp) ==
    IF page = "script"
    THEN [from |-> p, sql |-> resp.sql_query, table |-> FALSE,
          canvas |-> (resp.chart_config # Undef),
          note |-> IF resp.chart_config # Undef
                   THEN (IF rendered[1].ok THEN "" ELSE "plot error")
                   ELSE (IF resp.sql_query THEN "" ELSE "no analysis")]
    ELSE [from |-> p, sql |-> resp.sql_query, table |-> HasRows(resp),
          canvas |-> FALSE, note |-> ""]

DefaultOptions == [responsive |-> TRUE, maintainAspectRatio |-> FALSE]

\* C15: the option block of a blueprint reaches the resolved chart
\* unchanged; the default options are injected only when the blueprint has
\* no option block.
C15_OptionsPassThrough ==
    (Handled /\ Len(rendered) = 1 /\ rendered[1].ok) =>
        /\ ShapeBlueprint.options # Undef
              => rendered[1].config.options = ShapeBlueprint.options
        /\ (ShapeBlueprint.options = Undef /\ page = "dash")
              => rendered[1].config.options = DefaultOptions

\* ---------------------------------------------------------------- C16
\* the bot messages of the transcript that are no longer loading
Answered == {i \in 1..Len(chatBox) : chatBox[i].role = "bot" /\ ~chatBox[i].loading}

\* C16: whatever the order of arrival, each response or failure is written
\* into the loading placeholder appended for its own prompt, and the chat
\* content of every settled prompt is in the transcript.
C16_OwnPlaceholder ==
    /\ \A i \in Answered : chatBox[i].from = chatBox[i].prompt
    /\ \A p \in 1..(nextPrompt - 1) :
           p \notin pending => \E i \in Answered : chatBox[i].from = p

\* ---------------------------------------------------------------- C17
\* the request of prompt p fails in this step: it settles and no response
\* is handed to updateUI
FailureOf(p) == p \in pending /\ p \notin pending' /\ received' = received

\* C17: a request that fails changes only the chat transcript, where the
\* loading placeholder of its prompt becomes the error message; the panel,
\* the download button and the chart handles stay as they were, and no
\* second request is issued for the prompt.
C17_FailedRequestOnlyChat ==
    [][/\ \A p \in pending : FailureOf(p) =>
              /\ \E i \in 1..Len(chatBox) :
                     /\ chatBox[i].prompt = p /\ chatBox[i].loading
                     /\ chatBox' = [chatBox EXCEPT ![i].loading = FALSE,
                                                   ![i].from = p,
                                                   ![i].text = ErrorData.summary]
              /\ UNCHANGED <<panel, downloadBtn, chartInstance, chartInstances,
                             slots, charts>>
       /\ \A p \in pending' \ pending : p = nextPrompt]_vars

====
